---- MODULE Spec2Model ----
(***************************************************************************)
(* The Living Library agents (src/library_core/agents/__init__.py):        *)
(* GardenAgent keeps the ritual stage and its entries, LimnusAgent keeps   *)
(* the tiered memory file and the hash-chained ledger file, KiraAgent      *)
(* validates the ledger and the consent record.                            *)
(*                                                                         *)
(* A process is one pipeline run.  Every `await` of a process method is a  *)
(* point where another run may be scheduled, and the file reads and writes *)
(* of LimnusAgent execute in worker threads (asyncio.to_thread), so each   *)
(* action below is one segment of a method between two such points.        *)
(***************************************************************************)
EXTENDS Integers, Sequences, FiniteSets, TLC

(***************************************************************************)
(* Bounds of the model.                                                    *)
(***************************************************************************)
NProcs == 2         \* pipeline runs that may be in flight at once
MaxCalls == 3       \* LimnusAgent.process calls started under Spec
MaxPrior == 5       \* Spec starts after 0..MaxPrior earlier sequential runs
MaxSeqCalls == 7    \* sequential LimnusAgent.process calls under SeqSpec

Procs == 1..NProcs

(***************************************************************************)
(* Program constants.                                                      *)
(***************************************************************************)
PromoteThreshold == 5

(***************************************************************************)
(* Texts are sequences of one-character strings.                           *)
(***************************************************************************)
Hello == <<"h", "e", "l", "l", "o">>
NextText == <<"n", "e", "x", "t">>
NextPadded == <<" ", "N", "e", "x", "t", " ">>
ConsentText == <<"I", " ", "c", "o", "n", "s", "e", "n", "t", " ", "t", "o", " ",
                 "p", "r", "o", "c", "e", "e", "d">>
StartText == <<"s", "t", "a", "r", "t">>
OpenScroll == <<"o", "p", "e", "n", " ", "s", "c", "r", "o", "l", "l">>
OpenAgreement == <<"O", "p", "e", "n", " ", "A", "g", "r", "e", "e", "m", "e", "n", "t">>
EmptyText == <<>>

(***************************************************************************)
(* str.strip, str.lower, `in`, str.startswith and str.split(" ", 1)[1].    *)
(***************************************************************************)
Whitespace == {" ", "\t", "\n", "\r"}

RECURSIVE LStrip(_)
LStrip(s) == IF Len(s) > 0 /\ s[1] \in Whitespace THEN LStrip(Tail(s)) ELSE s

RECURSIVE RStrip(_)
RStrip(s) ==
    IF Len(s) > 0 /\ s[Len(s)] \in Whitespace THEN RStrip(SubSeq(s, 1, Len(s) - 1))
    ELSE s

Strip(s) == RStrip(LStrip(s))

UpperCase == <<"A", "B", "C", "D", "E", "F", "G", "H", "I", "J", "K", "L", "M",
               "N", "O", "P", "Q", "R", "S", "T", "U", "V", "W", "X", "Y", "Z">>
LowerCase == <<"a", "b", "c", "d", "e", "f", "g", "h", "i", "j", "k", "l", "m",
               "n", "o", "p", "q", "r", "s", "t", "u", "v", "w", "x", "y", "z">>

LowerChar(c) ==
    IF \E i \in 1..Len(UpperCase) : UpperCase[i] = c
    THEN LowerCase[CHOOSE i \in 1..Len(UpperCase) : UpperCase[i] = c]
    ELSE c

Lower(s) == <<>> \o [i \in 1..Len(s) |-> LowerChar(s[i])]

Contains(s, sub) ==
    \E i \in 0..(Len(s) - Len(sub)) : SubSeq(s, i + 1, i + Len(sub)) = sub

StartsWith(s, prefix) ==
    Len(s) >= Len(prefix) /\ SubSeq(s, 1, Len(prefix)) = prefix

\* s.split(" ", 1)[1], for an s that holds a space
AfterFirstSpace(s) ==
    LET k == CHOOSE i \in 1..Len(s) :
                 s[i] = " " /\ \A j \in 1..(i - 1) : s[j] # " "
    IN  SubSeq(s, k + 1, Len(s))

\* f"<ldquo>{user_text}<rdquo> ~ echoed by a whisper", then " " and the emoji
Styled(user_text, emoji) ==
    <<"ldquo">> \o user_text \o <<"rdquo", " ~ echoed by a whisper", " ", emoji>>

(***************************************************************************)
(* The request contexts the runs are started with: input_text, user_id     *)
(* ("" when absent) and agent_results.get("echo", {}) as left by the echo  *)
(* stage (has_echo = FALSE when the key is absent).                        *)
(***************************************************************************)
LimnusContexts ==
    { [input_text |-> Hello, user_id |-> "", has_echo |-> FALSE,
       styled_text |-> <<>>, glyph |-> ""],
      [input_text |-> NextText, user_id |-> "ace", has_echo |-> TRUE,
       styled_text |-> Styled(NextText, "squirrel"), glyph |-> "squirrel"] }

PriorContext ==
    [input_text |-> Hello, user_id |-> "", has_echo |-> FALSE,
     styled_text |-> <<>>, glyph |-> ""]

NoContext ==
    [input_text |-> <<>>, user_id |-> "", has_echo |-> FALSE,
     styled_text |-> <<>>, glyph |-> ""]

(***************************************************************************)
(* Hashing.  hashlib.sha256(json.dumps(block, sort_keys=True)) is modelled *)
(* as a collision-free digest of the serialised fields in sorted key       *)
(* order; the empty string "" used for the genesis prev is EmptyHash.      *)
(***************************************************************************)
EmptyHash == <<>>

\* a serialisation that leaves the timestamp out
CanonicalJsonNoTs(fields) == <<fields.data, fields.kind, fields.prev>>

\* json.dumps(block, sort_keys=True): the keys in sorted order
CanonicalJson(fields) == <<fields.data, fields.kind, fields.prev, fields.ts>>

Sha256(serialised) == <<"sha256", serialised>>

Digest(fields) == Sha256(CanonicalJson(fields))

\* block["hash"] = ... : the block with its hash field added
WithHash(fields) ==
    [ts |-> fields.ts, kind |-> fields.kind, data |-> fields.data,
     prev |-> fields.prev, hash |-> Digest(fields)]

\* {k: block[k] for k in block if k != "hash"}
WithoutHash(block) ==
    [ts |-> block.ts, kind |-> block.kind, data |-> block.data, prev |-> block.prev]

(***************************************************************************)
(* Files.  A file is missing, holds readable JSON (ok), is empty because a *)
(* writer has opened it for writing and not yet written (truncated), or    *)
(* holds bytes that do not parse (garbage).                                *)
(***************************************************************************)
OkFile(content) == [state |-> "ok", content |-> content]
MissingFile == [state |-> "missing", content |-> <<>>]
TruncatedFile == [state |-> "truncated", content |-> <<>>]
GarbageFile == [state |-> "garbage", content |-> <<>>]

\* LimnusAgent._read_json
ReadJson(file, default) ==
    IF file.state = "missing" THEN default
    ELSE IF file.state = "ok" THEN file.content
    ELSE default

\* Path.write_text opens the file with mode "w", which truncates it ...
OpenForWrite(file) == TruncatedFile

\* ... and then writes the data at offset 0.  When another writer has put
\* bytes into the file since this writer truncated it, the result is this
\* writer's data laid over them: the data itself when it is at least as long,
\* unparsable bytes otherwise.
WriteOutcomes(file, data) ==
    IF file.state = "truncated" THEN {OkFile(data)}
    ELSE {OkFile(data), GarbageFile}

(***************************************************************************)
(* LimnusAgent: the memory layers and the ledger block.                    *)
(***************************************************************************)
\* a record that leaves the L1 entries where they are
PromoteL1Skipped(memories) == memories

\* for entry in memories: if entry.get("layer") == "L1": entry["layer"] = "L2"
PromoteL1(memories) ==
    [i \in 1..Len(memories) |->
        IF memories[i].layer = "L1" THEN [memories[i] EXCEPT !.layer = "L2"]
        ELSE memories[i]]

L2Count(memories) == Cardinality({i \in 1..Len(memories) : memories[i].layer = "L2"})

\* the comparison as an off-by-one slip would write it
ReachesThreshold(l2_count) == l2_count >= PromoteThreshold

\* if l2_count > 5
ExceedsThreshold(l2_count) == l2_count > PromoteThreshold

PromoteL2(memories) ==
    [i \in 1..Len(memories) |->
        IF memories[i].layer = "L2" THEN [memories[i] EXCEPT !.layer = "L3"]
        ELSE memories[i]]

Promote(memories) ==
    LET aged == PromoteL1(memories)
    IN  IF ExceedsThreshold(L2Count(aged)) THEN PromoteL2(aged) ELSE aged

NewEntryLayer == "L1"

NewEntry(id, ts, context) ==
    [id |-> id, ts |-> ts, text |-> context.input_text, layer |-> NewEntryLayer,
     tags |-> IF context.user_id # "" THEN <<context.user_id>> ELSE <<>>]

\* lines 194-212: promote, then memories.append(new_entry)
Record(memories, id, ts, context) ==
    Append(Promote(memories), NewEntry(id, ts, context))

\* the link taken from the first block instead of the tail
PreviousHashOfFirst(ledger_blocks) ==
    IF Len(ledger_blocks) > 0 THEN ledger_blocks[1].hash
    ELSE EmptyHash

\* previous_hash = ledger_blocks[-1]["hash"] if ledger_blocks else ""
PreviousHash(ledger_blocks) ==
    IF Len(ledger_blocks) > 0 THEN ledger_blocks[Len(ledger_blocks)].hash
    ELSE EmptyHash

\* a block that is given the kind of the genesis block
NewBlockOfKindGenesis(ledger_blocks, ts, context) ==
    WithHash([ts |-> ts, kind |-> "genesis",
              data |-> [text |-> context.input_text,
                        styled_text |-> context.styled_text,
                        glyph |-> context.glyph],
              prev |-> PreviousHash(ledger_blocks)])

\* lines 218-232: the block of this call, linked to the tail
NewBlock(ledger_blocks, ts, context) ==
    WithHash([ts |-> ts, kind |-> "input",
              data |-> [text |-> context.input_text,
                        styled_text |-> context.styled_text,
                        glyph |-> context.glyph],
              prev |-> PreviousHash(ledger_blocks)])

Genesis(ts) ==
    WithHash([ts |-> ts, kind |-> "genesis",
              data |-> [anchor |-> "I return as breath."],
              prev |-> EmptyHash])

\* line 239: the result, from the new entry and the new block
LimnusResult(memories, ledger_blocks) ==
    [cached |-> TRUE,
     memory_id |-> memories[Len(memories)].id,
     layer |-> "L1",
     block_hash |-> ledger_blocks[Len(ledger_blocks)].hash]

\* lines 236-237: the two keys LimnusAgent.process writes to context.metadata
LimnusMetadata(metadata, memories, ledger_blocks) ==
    [metadata EXCEPT
        !.keys = @ \cup {"last_block_hash", "memory_count"},
        !.last_block_hash = ledger_blocks[Len(ledger_blocks)].hash,
        !.memory_count = Len(memories)]

\* lines 240-242: the payload of the log record
LimnusLogPayload(memories, ledger_blocks) ==
    [memory_id |-> memories[Len(memories)].id,
     layer |-> "L1",
     hash |-> ledger_blocks[Len(ledger_blocks)].hash]

(***************************************************************************)
(* KiraAgent: the issues of a ledger.  An issue is its message and the     *)
(* block index the message names (NoIndex when it names none).  A ts that  *)
(* datetime.fromisoformat rejects is modelled as a negative number.        *)
(***************************************************************************)
NoIndex == 0 - 1

Issue(msg, at) == [msg |-> msg, at |-> at]

Parses(ts) == ts >= 0

\* lines 285-290, for the block at Python index i (position i + 1)
HashIssues(blocks, i) ==
    IF blocks[i + 1].hash # Digest(WithoutHash(blocks[i + 1]))
    THEN <<Issue("Hash mismatch at block", i)>> ELSE <<>>

\* the link check started one block late
LinkIssuesFromSecond(blocks, i) ==
    IF i > 1 /\ blocks[i + 1].prev # blocks[i].hash
    THEN <<Issue("Broken prev link at block", i)>> ELSE <<>>

\* lines 292-295
LinkIssues(blocks, i) ==
    IF i > 0 /\ blocks[i + 1].prev # blocks[i].hash
    THEN <<Issue("Broken prev link at block", i)>> ELSE <<>>

\* lines 296-304: a ts that does not parse raises, and the except passes
TimestampIssues(blocks, i) ==
    IF /\ i > 0
       /\ Parses(blocks[i].ts)
       /\ Parses(blocks[i + 1].ts)
       /\ blocks[i + 1].ts < blocks[i].ts
    THEN <<Issue("Timestamp out of order at block", i)>> ELSE <<>>

BlockIssues(blocks, i) ==
    HashIssues(blocks, i) \o LinkIssues(blocks, i) \o TimestampIssues(blocks, i)

\* a loop that an unparsable ts ends: the blocks after it are not checked
RECURSIVE LoopIssuesUntilBadTs(_, _)
LoopIssuesUntilBadTs(blocks, n) ==
    IF n = 0 THEN <<>>
    ELSE IF \E k \in 1..(n - 1) : ~Parses(blocks[k].ts)
         THEN LoopIssuesUntilBadTs(blocks, n - 1)
         ELSE LoopIssuesUntilBadTs(blocks, n - 1) \o BlockIssues(blocks, n - 1)

\* lines 284-304: for index, block in enumerate(ledger_blocks)
RECURSIVE LoopIssues(_, _)
LoopIssues(blocks, n) ==
    IF n = 0 THEN <<>>
    ELSE LoopIssues(blocks, n - 1) \o BlockIssues(blocks, n - 1)

\* lines 280-282
GenesisIssues(blocks) ==
    IF blocks[1].prev # EmptyHash
    THEN <<Issue("Genesis block prev field should be empty", NoIndex)>> ELSE <<>>

\* lines 271-275: json.loads(ledger_path.read_text()) or the except branch
ReadIssues(file) ==
    IF file.state = "ok" THEN <<>> ELSE <<Issue("Ledger read error", NoIndex)>>

KiraRead(file) == IF file.state = "ok" THEN file.content ELSE <<>>

\* lines 268-304
LedgerIssues(file) ==
    LET blocks == KiraRead(file)
    IN  ReadIssues(file) \o
        (IF Len(blocks) = 0
         THEN <<Issue("Ledger missing or empty", NoIndex)>>
         ELSE GenesisIssues(blocks) \o LoopIssues(blocks, Len(blocks)))

\* as KiraMetadata, but the block hash is refreshed as well
KiraMetadataWithHash(metadata, issues) ==
    [metadata EXCEPT
        !.keys = @ \cup {"validation_passed", "issue_count", "last_block_hash"},
        !.validation_passed = (Len(issues) = 0),
        !.issue_count = Len(issues)]

\* lines 311-313: the two keys KiraAgent.process writes to context.metadata
KiraMetadata(metadata, issues) ==
    [metadata EXCEPT
        !.keys = @ \cup {"validation_passed", "issue_count"},
        !.validation_passed = (Len(issues) = 0),
        !.issue_count = Len(issues)]

\* line 315: the payload of the log record
KiraLogPayload(issues) == [passed |-> (Len(issues) = 0), issues |-> Len(issues)]

\* lines 307-309
ConsentIssues(garden_state) ==
    IF \E i \in 1..Len(garden_state.entries) : garden_state.entries[i].kind = "consent"
    THEN <<>> ELSE <<Issue("No consent recorded in ritual ledger", NoIndex)>>

(***************************************************************************)
(* GardenAgent: the ritual stage and the kind of the recorded event.       *)
(***************************************************************************)
STAGES == <<"scatter", "witness", "plant", "return", "give", "begin_again">>

CONSENT_KEYWORDS ==
    { <<"c", "o", "n", "s", "e", "n", "t">>, <<"a", "c", "c", "e", "p", "t">>,
      <<"a", "g", "r", "e", "e">>, <<"p", "e", "r", "m", "i", "t">> }

StageIndex(stage) == CHOOSE i \in 1..Len(STAGES) : STAGES[i] = stage

\* an advance that stops at the last stage
NextStageNoWrap(stage) ==
    IF StageIndex(stage) < Len(STAGES) THEN STAGES[StageIndex(stage) + 1] ELSE stage

\* STAGES[(STAGES.index(stage) + 1) % len(STAGES)], Python indices from 0
NextStage(stage) == STAGES[(((StageIndex(stage) - 1) + 1) % Len(STAGES)) + 1]

HasConsentKeyword(lower) == \E keyword \in CONSENT_KEYWORDS : Contains(lower, keyword)

\* lines 72-83: the branch the input takes
BranchKind(lower, entries) ==
    IF lower \in {StartText, <<"b", "e", "g", "i", "n">>} /\ Len(entries) = 1 THEN "begin"
    ELSE IF StartsWith(lower, <<"o", "p", "e", "n", " ">>) THEN "open"
    ELSE IF lower = NextText THEN "advance"
    ELSE "note"

\* the consent check chained to the branches as one more elif
EventKindUnlessBranched(branch, lower) ==
    IF branch = "note" /\ HasConsentKeyword(lower) THEN "consent" ELSE branch

\* lines 85-87: the consent check follows the branches and overrides them
EventKind(branch, lower) ==
    IF HasConsentKeyword(lower) THEN "consent" ELSE branch

Advances(branch, stage) ==
    branch = "advance" /\ \E i \in 1..Len(STAGES) : STAGES[i] = stage

\* lines 69-87
EventData(branch, event_kind, user_text, stage_before, stage_after) ==
    IF event_kind = "consent" THEN [text |-> user_text]
    ELSE IF branch = "open" THEN [scroll |-> AfterFirstSpace(user_text)]
    ELSE IF Advances(branch, stage_before) THEN [to |-> stage_after]
    ELSE [text |-> user_text]

EmptyData == [empty |-> TRUE]

\* lines 58-91: the ledger this call saves, from the ledger it loaded; t is
\* the clock at the call
GardenLedger(ledger, input_text, t) ==
    LET first == Len(ledger.entries) = 0
        entries == IF first
                   THEN <<[ts |-> t, kind |-> "genesis", data |-> EmptyData]>>
                   ELSE ledger.entries
        stage == IF first THEN "scatter" ELSE ledger.stage
        user_text == Strip(input_text)
        lower == Lower(user_text)
        branch == BranchKind(lower, entries)
        stage_after == IF Advances(branch, stage) THEN NextStage(stage) ELSE stage
        event_kind == EventKind(branch, lower)
        new_entry == [ts |-> IF first THEN t + 1 ELSE t,
                      kind |-> event_kind,
                      data |-> EventData(branch, event_kind, user_text, stage, stage_after)]
    IN  [stage |-> stage_after, entries |-> Append(entries, new_entry)]

\* the clock reads of the call: one more when the genesis entry is created
GardenClockReads(ledger) == IF Len(ledger.entries) = 0 THEN 2 ELSE 1

\* lines 95-102
GardenResult(saved) ==
    LET last == saved.entries[Len(saved.entries)]
    IN  [stage |-> saved.stage,
         ledger_ref |->
            IF last.kind = "advance" THEN <<"stage", saved.stage>>
            ELSE IF last.kind = "open" THEN <<"open", last.data.scroll>>
            ELSE <<last.kind, Len(saved.entries)>>]

NoResult == [stage |-> "", ledger_ref |-> <<>>]

(***************************************************************************)
(* EchoAgent: the mode weights and the persona.  A weight is a fraction    *)
(* <<numerator, denominator>>; 0.3, 0.3 and 0.4 and the increments 0.2,    *)
(* 0.2 and 0.1 are counted in tenths.  The doubles of the code compare as  *)
(* these fractions do: 0.3 + 0.1 and 0.4 are the same double, no other two *)
(* weights of one call are equal, and no quotient lies half-way between    *)
(* two multiples of 0.001.                                                 *)
(***************************************************************************)
PARADOX_KEYWORDS ==
    { <<"w", "h", "y">>, <<"m", "y", "s", "t", "e", "r", "y">>,
      <<"s", "p", "i", "r", "a", "l">>, <<"q", "u", "a", "n", "t", "u", "m">>,
      <<"?">> }

PERSONA_EMOJI(persona) ==
    CASE persona = "squirrel" -> "chipmunk"
      [] persona = "fox" -> "fox face"
      [] persona = "paradox" -> "sine wave"
      [] persona = "balanced" -> "scales"
      [] OTHER -> "sine wave"

\* lines 126-135: alpha, beta and gamma before the division, in tenths
RawWeights(user_text) ==
    [alpha |-> 3 + (IF Len(user_text) < 40 THEN 1 ELSE 0),
     beta |-> 3 + (IF Len(user_text) > 120 THEN 2 ELSE 0),
     gamma |-> 4 + (LET lower == Lower(user_text)
                    IN  IF \E keyword \in PARADOX_KEYWORDS : Contains(lower, keyword)
                        THEN 2 ELSE 0)]

\* line 138: total = alpha + beta + gamma or 1.0 (1.0 is ten tenths)
Total(raw) ==
    IF raw.alpha + raw.beta + raw.gamma # 0 THEN raw.alpha + raw.beta + raw.gamma
    ELSE 10

\* line 139: alpha / total, beta / total, gamma / total
Normalised(raw) ==
    [alpha |-> <<raw.alpha, Total(raw)>>,
     beta |-> <<raw.beta, Total(raw)>>,
     gamma |-> <<raw.gamma, Total(raw)>>]

\* x >= y and x > y for fractions with positive denominators
Geq(x, y) == x[1] * y[2] >= y[1] * x[2]
Gt(x, y) == x[1] * y[2] > y[1] * x[2]

\* the fraction cut, not rounded, to thousandths
Truncate3(x) == (1000 * x[1]) \div x[2]

\* round(x, 3), in thousandths
Round3(x) == (2000 * x[1] + x[2]) \div (2 * x[2])

\* line 140
RoundedState(weights) ==
    [alpha |-> Round3(weights.alpha),
     beta |-> Round3(weights.beta),
     gamma |-> Round3(weights.gamma)]

\* a choice in which a tie does not go to the first persona
PersonaStrict(weights) ==
    IF Gt(weights.alpha, weights.beta) /\ Gt(weights.alpha, weights.gamma)
    THEN "squirrel"
    ELSE IF Gt(weights.beta, weights.alpha) /\ Gt(weights.beta, weights.gamma)
         THEN "fox"
         ELSE "paradox"

\* lines 142-146
Persona(weights) ==
    IF Geq(weights.alpha, weights.beta) /\ Geq(weights.alpha, weights.gamma)
    THEN "squirrel"
    ELSE IF Gt(weights.beta, weights.alpha) /\ Geq(weights.beta, weights.gamma)
         THEN "fox"
         ELSE "paradox"

\* lines 150-151: the two keys EchoAgent.process writes to context.metadata
EchoMetadata(metadata, user_text) ==
    [metadata EXCEPT
        !.keys = @ \cup {"dominant_persona", "mode_weights"},
        !.dominant_persona = Persona(Normalised(RawWeights(user_text))),
        !.mode_weights = RoundedState(Normalised(RawWeights(user_text)))]

\* line 154: the payload of the log record
EchoLogPayload(user_text) ==
    LET emoji == PERSONA_EMOJI(Persona(Normalised(RawWeights(user_text))))
    IN  [input |-> user_text, output |-> Styled(user_text, emoji), glyph |-> emoji]

\* line 153
EchoResult(user_text) ==
    LET emoji == PERSONA_EMOJI(Persona(Normalised(RawWeights(user_text))))
    IN  [styled_text |-> Styled(user_text, emoji),
         state |-> RoundedState(Normalised(RawWeights(user_text))),
         glyph |-> emoji]

(***************************************************************************)
(* State.                                                                  *)
(***************************************************************************)
VARIABLES
    memFile,        \* state/limnus_memory.json
    ledgerFile,     \* state/ledger.json
    now,            \* the clock read by _iso_now()
    nextId,         \* the next fresh uuid4 of a memory entry
    pc,             \* pc[p]: where run p stands
    ctx,            \* ctx[p]: the context run p was started with
    memories,       \* memories[p]: LimnusAgent.process's local list
    ledger_blocks,  \* ledger_blocks[p]: LimnusAgent.process's local list
    calls,          \* LimnusAgent.process calls started so far
    garden,         \* the "garden_ledger" state: stage and entries
    ledger,         \* ledger[p]: GardenAgent.process's local copy of it
    garden_result,  \* garden_result[p]: what GardenAgent.process returned last
    callLog,        \* history: input and saved stage of each GardenAgent call
    issues,         \* issues[p]: KiraAgent.process's local list
    validation,     \* validation[p]: what KiraAgent.process returned last
    limnus_result,  \* limnus_result[p]: what LimnusAgent.process returned
    echo_result,    \* echo_result[p]: what EchoAgent.process returned
    metadata,       \* metadata[p]: context.metadata of run p
    logged,         \* logged[p]: the log record the agent call of run p appended
    persistedMem,   \* history: the memory list last persisted readably
    prior,          \* history: the sequential runs served before Init
    aborted,        \* history: the LimnusAgent.process calls that raised
    tamper          \* history: the edit made to the ledger file from outside

vars == <<memFile, ledgerFile, now, nextId, pc, ctx, memories, ledger_blocks,
          calls, garden, ledger, garden_result, callLog, issues, validation,
          limnus_result, echo_result, metadata, logged, persistedMem, prior, aborted,
          tamper>>

limnusVars == <<memFile, ledgerFile, now, nextId, memories, ledger_blocks, calls,
                persistedMem>>
storeVars == <<memFile, ledgerFile, persistedMem>>
kiraVars == <<issues, validation>>
gardenVars == <<garden, ledger, garden_result, callLog>>
envVars == <<prior, tamper, aborted>>
resultVars == <<limnus_result, echo_result, metadata, logged>>

(***************************************************************************)
(* The stores as k sequential LimnusAgent.process calls leave them.        *)
(***************************************************************************)
RECURSIVE AfterSequentialCalls(_)
AfterSequentialCalls(k) ==
    IF k = 0
    THEN [mem |-> <<>>, ledger |-> <<Genesis(0)>>, now |-> 1, nextId |-> 1]
    ELSE LET s == AfterSequentialCalls(k - 1)
         IN  [mem |-> Record(s.mem, s.nextId, s.now, PriorContext),
              ledger |-> Append(s.ledger, NewBlock(s.ledger, s.now + 1, PriorContext)),
              now |-> s.now + 2,
              nextId |-> s.nextId + 1]

NoTamper == [kind |-> "none", at |-> NoIndex, field |-> ""]

NoValidation == [passed |-> FALSE, issues |-> <<>>, returned |-> FALSE]

\* no result: the call has not returned
NoLimnusResult ==
    [cached |-> FALSE, memory_id |-> 0, layer |-> "", block_hash |-> EmptyHash]

NoWeights == [alpha |-> 0, beta |-> 0, gamma |-> 0]

NoEchoResult == [styled_text |-> <<>>, state |-> NoWeights, glyph |-> ""]

\* the agent call has appended no log record (yet)
NoLog == [agent |-> "", payload |-> [empty |-> TRUE]]

\* self.append_log(agent, payload)
LogRecord(agent, payload) == [agent |-> agent, payload |-> payload]

\* context.metadata of a new context: no key is set.  keys holds the keys
\* that have been written, the other fields their values.
NoMetadata ==
    [keys |-> {}, last_block_hash |-> EmptyHash, memory_count |-> 0,
     dominant_persona |-> "", mode_weights |-> NoWeights,
     validation_passed |-> FALSE, issue_count |-> 0]

\* GardenAgent.__init__ / LimnusAgent.__init__ have run; no run has started.
InitProcs ==
    /\ pc = [p \in Procs |-> "idle"]
    /\ ctx = [p \in Procs |-> NoContext]
    /\ memories = [p \in Procs |-> <<>>]
    /\ ledger_blocks = [p \in Procs |-> <<>>]
    /\ calls = 0
    /\ garden = [stage |-> "scatter", entries |-> <<>>]
    /\ ledger = [p \in Procs |-> garden]
    /\ garden_result = [p \in Procs |-> NoResult]
    /\ callLog = <<>>
    /\ issues = [p \in Procs |-> <<>>]
    /\ validation = [p \in Procs |-> NoValidation]
    /\ limnus_result = [p \in Procs |-> NoLimnusResult]
    /\ echo_result = [p \in Procs |-> NoEchoResult]
    /\ metadata = [p \in Procs |-> NoMetadata]
    /\ logged = [p \in Procs |-> NoLog]
    /\ tamper = NoTamper
    /\ aborted = 0

\* LimnusAgent.__init__ on a fresh workspace: "[]" and the genesis block.
InitFresh ==
    /\ memFile = OkFile(<<>>)
    /\ ledgerFile = OkFile(<<Genesis(0)>>)
    /\ now = 1
    /\ nextId = 1
    /\ persistedMem = <<>>
    /\ prior = 0
    /\ InitProcs

\* A workspace that has already served k sequential runs.
InitPrior ==
    /\ \E k \in 0..MaxPrior :
          LET s == AfterSequentialCalls(k)
          IN  /\ memFile = OkFile(s.mem)
              /\ ledgerFile = OkFile(s.ledger)
              /\ now = s.now
              /\ nextId = s.nextId
              /\ persistedMem = s.mem
              /\ prior = k
    /\ InitProcs

(***************************************************************************)
(* LimnusAgent.process                                                     *)
(***************************************************************************)
\* line 192: memories = await to_thread(_read_json, mem_path, [])
LimnusReadMem(p, c) ==
    /\ pc[p] \in {"idle", "done"}
    /\ pc' = [pc EXCEPT ![p] = "open_mem"]
    /\ ctx' = [ctx EXCEPT ![p] = c]
    /\ memories' = [memories EXCEPT ![p] = ReadJson(memFile, <<>>)]
    /\ calls' = calls + 1
    /\ validation' = [validation EXCEPT ![p] = NoValidation]
    /\ limnus_result' = [limnus_result EXCEPT ![p] = NoLimnusResult]
    /\ metadata' = [metadata EXCEPT ![p] = NoMetadata]
    /\ logged' = [logged EXCEPT ![p] = NoLog]
    /\ UNCHANGED <<memFile, ledgerFile, now, nextId, ledger_blocks, persistedMem,
                   gardenVars, issues, envVars, echo_result>>

\* lines 194-213: promote, append the new entry, start writing the file
LimnusOpenMem(p) ==
    /\ pc[p] = "open_mem"
    /\ pc' = [pc EXCEPT ![p] = "write_mem"]
    /\ memories' = [memories EXCEPT ![p] = Record(memories[p], nextId, now, ctx[p])]
    /\ nextId' = nextId + 1
    /\ now' = now + 1
    /\ memFile' = OpenForWrite(memFile)
    /\ UNCHANGED <<ledgerFile, ctx, ledger_blocks, calls, persistedMem, gardenVars, kiraVars, envVars, resultVars>>

\* line 213 / 256: the write of the memory list completes
LimnusWriteMem(p) ==
    /\ pc[p] = "write_mem"
    /\ pc' = [pc EXCEPT ![p] = "read_ledger"]
    /\ \E f \in WriteOutcomes(memFile, memories[p]) :
          /\ memFile' = f
          /\ persistedMem' = IF f.state = "ok" THEN f.content ELSE persistedMem
    /\ UNCHANGED <<ledgerFile, now, nextId, ctx, memories, ledger_blocks, calls,
                   gardenVars, kiraVars, envVars, resultVars>>

\* lines 215-217: ledger_blocks = await to_thread(_read_json, ledger_path, [])
LimnusReadLedger(p) ==
    /\ pc[p] = "read_ledger"
    /\ pc' = [pc EXCEPT ![p] = "open_ledger"]
    /\ ledger_blocks' = [ledger_blocks EXCEPT ![p] = ReadJson(ledgerFile, <<>>)]
    /\ UNCHANGED <<memFile, ledgerFile, now, nextId, ctx, memories, calls, persistedMem,
                   gardenVars, kiraVars, envVars, resultVars>>

\* lines 218-234: build the block, append it, start writing the file
LimnusOpenLedger(p) ==
    /\ pc[p] = "open_ledger"
    /\ pc' = [pc EXCEPT ![p] = "write_ledger"]
    /\ ledger_blocks' = [ledger_blocks EXCEPT
                            ![p] = Append(@, NewBlock(@, now, ctx[p]))]
    /\ now' = now + 1
    /\ ledgerFile' = OpenForWrite(ledgerFile)
    /\ UNCHANGED <<memFile, nextId, ctx, memories, calls, persistedMem, gardenVars, kiraVars, envVars, resultVars>>

\* line 234 / 256: the write of the ledger completes
LimnusWriteLedger(p) ==
    /\ pc[p] = "write_ledger"
    /\ pc' = [pc EXCEPT ![p] = "return"]
    /\ \E f \in WriteOutcomes(ledgerFile, ledger_blocks[p]) : ledgerFile' = f
    /\ UNCHANGED <<memFile, now, nextId, ctx, memories, ledger_blocks, calls, persistedMem,
                   gardenVars, kiraVars, envVars, resultVars>>

\* lines 236-243: metadata, result, log record, return (the locals die)
LimnusReturn(p) ==
    /\ pc[p] = "return"
    /\ pc' = [pc EXCEPT ![p] = "returned"]
    /\ metadata' = [metadata EXCEPT ![p] = LimnusMetadata(@, memories[p], ledger_blocks[p])]
    /\ limnus_result' = [limnus_result EXCEPT
                            ![p] = LimnusResult(memories[p], ledger_blocks[p])]
    /\ logged' = [logged EXCEPT
                     ![p] = LogRecord("limnus", LimnusLogPayload(memories[p],
                                                                ledger_blocks[p]))]
    /\ memories' = [memories EXCEPT ![p] = <<>>]
    /\ ledger_blocks' = [ledger_blocks EXCEPT ![p] = <<>>]
    /\ UNCHANGED <<memFile, ledgerFile, now, nextId, calls, persistedMem, ctx,
                   gardenVars, kiraVars, envVars, echo_result>>

\* the run is over: its context, and with it the stage results and the
\* metadata, is dropped
ContextDiscarded(p) ==
    /\ pc[p] \in {"returned", "raised"}
    /\ pc' = [pc EXCEPT ![p] = "done"]
    /\ ctx' = [ctx EXCEPT ![p] = NoContext]
    /\ memories' = [memories EXCEPT ![p] = <<>>]
    /\ ledger_blocks' = [ledger_blocks EXCEPT ![p] = <<>>]
    /\ limnus_result' = [limnus_result EXCEPT ![p] = NoLimnusResult]
    /\ metadata' = [metadata EXCEPT ![p] = NoMetadata]
    /\ logged' = [logged EXCEPT ![p] = NoLog]
    /\ UNCHANGED <<memFile, ledgerFile, now, nextId, calls, persistedMem,
                   gardenVars, kiraVars, envVars, echo_result>>

(***************************************************************************)
(* KiraAgent.process                                                       *)
(***************************************************************************)
\* lines 268-305: read the ledger and collect its issues
KiraLedger(p) ==
    /\ pc[p] \in {"idle", "done"}
    /\ pc' = [pc EXCEPT ![p] = "kira_consent"]
    /\ issues' = [issues EXCEPT ![p] = LedgerIssues(ledgerFile)]
    /\ logged' = [logged EXCEPT ![p] = NoLog]
    /\ UNCHANGED <<limnusVars, ctx, gardenVars, validation, envVars,
                   limnus_result, echo_result, metadata>>

\* lines 306-316: the consent check, passed, the result
KiraConsent(p) ==
    /\ pc[p] = "kira_consent"
    /\ pc' = [pc EXCEPT ![p] = "done"]
    /\ LET all == issues[p] \o ConsentIssues(garden)
       IN  /\ issues' = [issues EXCEPT ![p] = <<>>]
           /\ validation' = [validation EXCEPT
                  ![p] = [passed |-> (Len(all) = 0), issues |-> all, returned |-> TRUE]]
           /\ metadata' = [metadata EXCEPT ![p] = KiraMetadata(@, all)]
           /\ logged' = [logged EXCEPT ![p] = LogRecord("kira", KiraLogPayload(all))]
    /\ UNCHANGED <<limnusVars, ctx, gardenVars, envVars, limnus_result, echo_result>>

\* no agent call is in flight
Quiescent == \A p \in Procs : pc[p] \in {"idle", "done"}

(***************************************************************************)
(* Spec: LimnusAgent.process calls of up to NProcs overlapping runs on a   *)
(* workspace with earlier history.                                         *)
(***************************************************************************)
LimnusStep(p) ==
    \/ LimnusOpenMem(p)
    \/ LimnusWriteMem(p)
    \/ LimnusReadLedger(p)
    \/ LimnusOpenLedger(p)
    \/ LimnusWriteLedger(p)
    \/ LimnusReturn(p)
    \/ ContextDiscarded(p)

KiraStep(p) ==
    \/ KiraLedger(p)
    \/ KiraConsent(p)

Next ==
    \E p \in Procs :
        \/ \E c \in LimnusContexts : calls < MaxCalls /\ LimnusReadMem(p, c)
        \/ LimnusStep(p)

Spec == InitPrior /\ [][Next]_vars

(***************************************************************************)
(* SeqSpec: one run at a time on a fresh workspace, validated by           *)
(* KiraAgent.process between the calls.                                    *)
(***************************************************************************)
SeqNext ==
    \/ \E c \in LimnusContexts : calls < MaxSeqCalls /\ LimnusReadMem(1, c)
    \/ LimnusStep(1)
    \/ KiraStep(1)

SeqSpec == InitFresh /\ [][SeqNext]_vars

(***************************************************************************)
(* TamperSpec: sequential calls, then one edit of the persisted ledger     *)
(* from outside the program, then validation.                              *)
(***************************************************************************)
MaxTamperCalls == 3

BadTs == 0 - 1

ForgedHash == Sha256(<<"forged">>)

SetField(block, field, v) ==
    CASE field = "ts" -> [block EXCEPT !.ts = v]
      [] field = "kind" -> [block EXCEPT !.kind = v]
      [] field = "data" -> [block EXCEPT !.data = v]
      [] field = "prev" -> [block EXCEPT !.prev = v]

GetField(block, field) ==
    CASE field = "ts" -> block.ts
      [] field = "kind" -> block.kind
      [] field = "data" -> block.data
      [] field = "prev" -> block.prev

\* the values an edit may put into a field
FieldValues(blocks, field) ==
    CASE field = "ts" -> (0..now) \cup {BadTs}
      [] field = "kind" -> {"genesis", "input", "note"}
      [] field = "data" -> {blocks[i].data : i \in 1..Len(blocks)}
                              \cup {[anchor |-> "tampered"]}
      [] field = "prev" -> {blocks[i].hash : i \in 1..Len(blocks)}
                              \cup {EmptyHash, ForgedHash}

NotValidatedYet == \A p \in Procs : ~validation[p].returned

\* one field of one block is changed; its hash is left as it was
TamperField ==
    /\ tamper = NoTamper
    /\ Quiescent
    /\ NotValidatedYet
    /\ ledgerFile.state = "ok"
    /\ \E i \in 1..Len(ledgerFile.content), field \in {"ts", "kind", "data", "prev"} :
          \E v \in FieldValues(ledgerFile.content, field)
                      \ {GetField(ledgerFile.content[i], field)} :
              /\ ledgerFile' = OkFile([ledgerFile.content EXCEPT
                                          ![i] = SetField(@, field, v)])
              /\ tamper' = [kind |-> "field", at |-> i - 1, field |-> field]
    /\ UNCHANGED <<memFile, persistedMem, now, nextId, pc, ctx, memories,
                   ledger_blocks, calls, gardenVars, kiraVars, prior, aborted, resultVars>>

\* the prev values of the adjacent non-genesis blocks at Python indices
\* i and i + 1 are exchanged
SwapPrev ==
    /\ tamper = NoTamper
    /\ Quiescent
    /\ NotValidatedYet
    /\ ledgerFile.state = "ok"
    /\ \E i \in 1..(Len(ledgerFile.content) - 2) :
          /\ ledgerFile' = OkFile([ledgerFile.content EXCEPT
                                      ![i + 1].prev = ledgerFile.content[i + 2].prev,
                                      ![i + 2].prev = ledgerFile.content[i + 1].prev])
          /\ tamper' = [kind |-> "swap", at |-> i, field |-> "prev"]
    /\ UNCHANGED <<memFile, persistedMem, now, nextId, pc, ctx, memories,
                   ledger_blocks, calls, gardenVars, kiraVars, prior, aborted, resultVars>>

TamperNext ==
    \/ \E c \in LimnusContexts :
          calls < MaxTamperCalls /\ tamper = NoTamper /\ LimnusReadMem(1, c)
    \/ LimnusStep(1)
    \/ KiraStep(1)
    \/ TamperField
    \/ SwapPrev

TamperSpec == InitFresh /\ [][TamperNext]_vars

(***************************************************************************)
(* EnvSpec: sequential runs on a workspace whose ledger file may be        *)
(* deleted or damaged between the calls, and whose LimnusAgent may be      *)
(* constructed again.                                                      *)
(***************************************************************************)
MaxEnvCalls == 2

\* lines 177-189: LimnusAgent.__init__ creates the files that do not exist
LimnusInit(p) ==
    /\ pc[p] \in {"idle", "done"}
    /\ Quiescent
    /\ memFile' = IF memFile.state = "missing" THEN OkFile(<<>>) ELSE memFile
    /\ persistedMem' = IF memFile.state = "missing" THEN <<>> ELSE persistedMem
    /\ ledgerFile' = IF ledgerFile.state = "missing"
                     THEN OkFile(<<Genesis(now)>>) ELSE ledgerFile
    /\ now' = IF ledgerFile.state = "missing" THEN now + 1 ELSE now
    /\ UNCHANGED <<nextId, pc, ctx, memories, ledger_blocks, calls, gardenVars,
                   kiraVars, envVars, resultVars>>

\* the ledger file is deleted
LoseLedger ==
    /\ tamper = NoTamper
    /\ Quiescent
    /\ ledgerFile.state = "ok"
    /\ ledgerFile' = MissingFile
    /\ tamper' = [kind |-> "lost", at |-> NoIndex, field |-> ""]
    /\ UNCHANGED <<memFile, persistedMem, now, nextId, pc, ctx, memories,
                   ledger_blocks, calls, gardenVars, kiraVars, prior, aborted, resultVars>>

\* the ledger file is overwritten with bytes that are not JSON
CorruptLedger ==
    /\ tamper = NoTamper
    /\ Quiescent
    /\ ledgerFile.state = "ok"
    /\ ledgerFile' = GarbageFile
    /\ tamper' = [kind |-> "corrupt", at |-> NoIndex, field |-> ""]
    /\ UNCHANGED <<memFile, persistedMem, now, nextId, pc, ctx, memories,
                   ledger_blocks, calls, gardenVars, kiraVars, prior, aborted, resultVars>>

EnvNext ==
    \/ \E c \in LimnusContexts : calls < MaxEnvCalls /\ LimnusReadMem(1, c)
    \/ LimnusStep(1)
    \/ KiraStep(1)
    \/ LimnusInit(1)
    \/ LoseLedger
    \/ CorruptLedger

EnvSpec == InitFresh /\ [][EnvNext]_vars

(***************************************************************************)
(* FailSpec: sequential LimnusAgent.process calls in which the write of    *)
(* the ledger may raise OSError, and which may be cancelled while they     *)
(* wait between the write of the memory list and the write of the ledger.  *)
(***************************************************************************)
MaxFailCalls == 3

\* line 234 / 256: Path.write_text cannot open the file; nothing is changed
LimnusOpenLedgerFails(p) ==
    /\ pc[p] = "open_ledger"
    /\ pc' = [pc EXCEPT ![p] = "raised"]
    /\ ledger_blocks' = [ledger_blocks EXCEPT
                            ![p] = Append(@, NewBlock(@, now, ctx[p]))]
    /\ now' = now + 1
    /\ aborted' = aborted + 1
    /\ UNCHANGED <<memFile, ledgerFile, nextId, ctx, memories, calls, persistedMem,
                   gardenVars, kiraVars, prior, tamper, resultVars>>

\* line 234 / 256: Path.write_text has opened (and so emptied) the file and
\* the write raises, with none or a part of the bytes written
LimnusWriteLedgerFails(p) ==
    /\ pc[p] = "write_ledger"
    /\ pc' = [pc EXCEPT ![p] = "raised"]
    /\ \E f \in {ledgerFile, GarbageFile} : ledgerFile' = f
    /\ aborted' = aborted + 1
    /\ UNCHANGED <<memFile, now, nextId, ctx, memories, ledger_blocks, calls,
                   persistedMem, gardenVars, kiraVars, prior, tamper, resultVars>>

\* lines 215-217: the task is cancelled while it awaits the read of the
\* ledger; CancelledError leaves process before the block is built
LimnusCancelled(p) ==
    /\ pc[p] \in {"read_ledger", "open_ledger"}
    /\ pc' = [pc EXCEPT ![p] = "raised"]
    /\ aborted' = aborted + 1
    /\ UNCHANGED <<limnusVars, ctx, gardenVars, kiraVars, prior, tamper, resultVars>>

FailNext ==
    \/ \E c \in LimnusContexts : calls < MaxFailCalls /\ LimnusReadMem(1, c)
    \/ LimnusStep(1)
    \/ LimnusOpenLedgerFails(1)
    \/ LimnusWriteLedgerFails(1)
    \/ LimnusCancelled(1)

FailSpec == InitFresh /\ [][FailNext]_vars

(***************************************************************************)
(* GardenAgent.process                                                     *)
(***************************************************************************)
\* line 57: ledger = await self.get_state(LEDGER_KEY)
GardenLoad(p, input_text) ==
    /\ pc[p] \in {"idle", "done"}
    /\ pc' = [pc EXCEPT ![p] = "garden_save"]
    /\ ctx' = [ctx EXCEPT ![p] = [NoContext EXCEPT !.input_text = input_text]]
    /\ ledger' = [ledger EXCEPT ![p] = garden]
    /\ metadata' = [metadata EXCEPT ![p] = NoMetadata]
    /\ logged' = [logged EXCEPT ![p] = NoLog]
    /\ UNCHANGED <<limnusVars, garden, garden_result, callLog, kiraVars, envVars,
                   limnus_result, echo_result>>

\* lines 58-93: the new entry, the stage, await self.save_state(...)
GardenSave(p) ==
    /\ pc[p] = "garden_save"
    /\ pc' = [pc EXCEPT ![p] = "garden_return"]
    /\ LET saved == GardenLedger(ledger[p], ctx[p].input_text, now)
       IN  /\ ledger' = [ledger EXCEPT ![p] = saved]
           /\ garden' = saved
           /\ callLog' = Append(callLog, [input |-> ctx[p].input_text,
                                          stage |-> saved.stage])
    /\ now' = now + GardenClockReads(ledger[p])
    /\ UNCHANGED <<memFile, ledgerFile, persistedMem, nextId, memories, ledger_blocks,
                   calls, ctx, garden_result, kiraVars, envVars, resultVars>>

\* lines 95-104: the result, the log record, return
GardenReturn(p) ==
    /\ pc[p] = "garden_return"
    /\ pc' = [pc EXCEPT ![p] = "done"]
    /\ garden_result' = [garden_result EXCEPT ![p] = GardenResult(ledger[p])]
    /\ logged' = [logged EXCEPT ![p] = LogRecord("garden", GardenResult(ledger[p]))]
    /\ UNCHANGED <<limnusVars, ctx, garden, ledger, callLog, kiraVars, envVars,
                   limnus_result, echo_result, metadata>>

(***************************************************************************)
(* GardenSeqSpec: GardenAgent.process calls one after another, with at     *)
(* most MaxNext inputs "next" and MaxOther other inputs.                   *)
(***************************************************************************)
MaxNext == 6
MaxOther == 2

OtherInputs ==
    {Hello, ConsentText, StartText, OpenScroll, OpenAgreement, NextPadded, EmptyText}

Logged(inputs) == Cardinality({k \in 1..Len(callLog) : callLog[k].input \in inputs})

GardenSeqNext ==
    \/ Logged({NextText}) < MaxNext /\ GardenLoad(1, NextText)
    \/ \E t \in OtherInputs : Logged(OtherInputs) < MaxOther /\ GardenLoad(1, t)
    \/ GardenSave(1)
    \/ GardenReturn(1)

GardenSeqSpec == InitFresh /\ [][GardenSeqNext]_vars

(***************************************************************************)
(* GardenSpec: GardenAgent.process calls of up to NProcs overlapping runs, *)
(* with KiraAgent.process validations between and during them.            *)
(***************************************************************************)
MaxGardenCalls == 3

GardenInputs == {Hello, ConsentText, NextText}

\* GardenAgent.process calls started so far
GardenStarted ==
    Len(callLog) + Cardinality({p \in Procs : pc[p] = "garden_save"})

GardenStep(p) ==
    \/ GardenSave(p)
    \/ GardenReturn(p)

GardenNext ==
    \E p \in Procs :
        \/ \E t \in GardenInputs : GardenStarted < MaxGardenCalls /\ GardenLoad(p, t)
        \/ GardenStep(p)
        \/ KiraStep(p)

GardenSpec == InitFresh /\ [][GardenNext]_vars

(***************************************************************************)
(* PipelineSpec: one run at a time on a fresh workspace; stages            *)
(* (GardenAgent.process, LimnusAgent.process) and validations              *)
(* (KiraAgent.process) in any order, nothing else touching the stores.     *)
(***************************************************************************)
MaxPipelineCalls == 2
MaxPipelineRituals == 2

PipelineInputs == {Hello, ConsentText}

PipelineNext ==
    \/ \E c \in LimnusContexts : calls < MaxPipelineCalls /\ LimnusReadMem(1, c)
    \/ LimnusStep(1)
    \/ \E t \in PipelineInputs :
          Len(callLog) < MaxPipelineRituals /\ GardenLoad(1, t)
    \/ GardenStep(1)
    \/ KiraStep(1)

PipelineSpec == InitFresh /\ [][PipelineNext]_vars

(***************************************************************************)
(* CumulativeSpec: sequential calls, then any number of timestamps made    *)
(* unparsable and one more edit of the persisted ledger (a field, a swap,  *)
(* the file deleted or damaged), with a consent given or not, then         *)
(* validation.                                                             *)
(***************************************************************************)
MaxCumulativeCalls == 2
MaxRitualCalls == 1

\* the ts of one block is replaced by a string that is not a timestamp
SpoilTimestamp ==
    /\ tamper = NoTamper
    /\ Quiescent
    /\ ledgerFile.state = "ok"
    /\ \E i \in 1..Len(ledgerFile.content) :
          /\ Parses(ledgerFile.content[i].ts)
          /\ ledgerFile' = OkFile([ledgerFile.content EXCEPT ![i].ts = BadTs])
    /\ UNCHANGED <<memFile, persistedMem, now, nextId, pc, ctx, memories,
                   ledger_blocks, calls, gardenVars, kiraVars, envVars, resultVars>>

CumulativeNext ==
    \/ \E c \in LimnusContexts :
          calls < MaxCumulativeCalls /\ tamper = NoTamper /\ LimnusReadMem(1, c)
    \/ LimnusStep(1)
    \/ Len(callLog) < MaxRitualCalls /\ GardenLoad(1, ConsentText)
    \/ GardenStep(1)
    \/ KiraStep(1)
    \/ SpoilTimestamp
    \/ TamperField
    \/ SwapPrev
    \/ LoseLedger
    \/ CorruptLedger

CumulativeSpec == InitFresh /\ [][CumulativeNext]_vars

(***************************************************************************)
(* EchoAgent.process, on the inputs of the model: texts of every length    *)
(* class (under 40, 40 to 120, over 120 characters, at each boundary),     *)
(* without and with a paradox keyword.                                     *)
(***************************************************************************)
Filler(n) == [i \in 1..n |-> "a"]

EchoLengths == {7, 8, 39, 40, 41, 119, 120, 121, 122}

EchoEndings ==
    {<<>>, <<"W", "h", "y">>, <<"?">>, <<"s", "p", "i", "r", "a", "l">>,
     <<"Q", "U", "A", "N", "T", "U", "M">>, <<"m", "y", "s", "t", "e", "r", "y">>}

\* a text of n characters that ends with the ending
EchoInputs ==
    {EmptyText, Hello} \cup
        {Filler(n - Len(ending)) \o ending : n \in EchoLengths, ending \in EchoEndings}

\* lines 122-151: the weights, the persona, context.metadata
EchoStyle(p, user_text) ==
    /\ pc[p] \in {"idle", "done"}
    /\ pc' = [pc EXCEPT ![p] = "echo_return"]
    /\ ctx' = [ctx EXCEPT ![p] = [NoContext EXCEPT !.input_text = user_text]]
    /\ metadata' = [metadata EXCEPT ![p] = EchoMetadata(NoMetadata, user_text)]
    /\ echo_result' = [echo_result EXCEPT ![p] = NoEchoResult]
    /\ logged' = [logged EXCEPT ![p] = NoLog]
    /\ UNCHANGED <<limnusVars, gardenVars, kiraVars, envVars, limnus_result>>

\* lines 153-155: the result, the log record, return
EchoReturn(p) ==
    /\ pc[p] = "echo_return"
    /\ pc' = [pc EXCEPT ![p] = "done"]
    /\ echo_result' = [echo_result EXCEPT ![p] = EchoResult(ctx[p].input_text)]
    /\ logged' = [logged EXCEPT ![p] = LogRecord("echo", EchoLogPayload(ctx[p].input_text))]
    /\ UNCHANGED <<limnusVars, ctx, gardenVars, kiraVars, envVars, limnus_result,
                   metadata>>

(***************************************************************************)
(* EchoSpec: EchoAgent.process calls one after another.                    *)
(***************************************************************************)
EchoNext ==
    \/ \E user_text \in EchoInputs : EchoStyle(1, user_text)
    \/ EchoReturn(1)

EchoSpec == InitFresh /\ [][EchoNext]_vars

(***************************************************************************)
(* Properties.                                                             *)
(***************************************************************************)
Rank(layer) ==
    CASE layer = "L1" -> 1
      [] layer = "L2" -> 2
      [] layer = "L3" -> 3
      [] OTHER -> 0

Messages(iss) == {iss[i].msg : i \in 1..Len(iss)}

IssuesWith(iss, msg) == {i \in 1..Len(iss) : iss[i].msg = msg}

ChainMessages == {"Hash mismatch at block", "Broken prev link at block"}

HashesHold(blocks) ==
    \A i \in 1..Len(blocks) : blocks[i].hash = Digest(WithoutHash(blocks[i]))

LinksHold(blocks) ==
    \A i \in 2..Len(blocks) : blocks[i].prev = blocks[i - 1].hash

\* C1: once the overlapping LimnusAgent.process calls have all returned, the
\* ledger holds genesis, the earlier blocks and one block per call, no two
\* blocks share a prev value, and validating it yields no hash-mismatch,
\* broken-link or genesis issue.
C1_ConcurrentAppendsSerialized ==
    Quiescent =>
        /\ ledgerFile.state = "ok"
        /\ Len(ledgerFile.content) = 1 + prior + calls
        /\ \A i, j \in 1..Len(ledgerFile.content) :
              i # j => ledgerFile.content[i].prev # ledgerFile.content[j].prev
        /\ Messages(LedgerIssues(ledgerFile)) \cap
              (ChainMessages \cup {"Genesis block prev field should be empty"}) = {}

\* C2: after sequential LimnusAgent.process calls on a fresh ledger every
\* block's hash is the digest of its other fields, every later block's prev is
\* the hash of the block before it, and KiraAgent.process reports neither a
\* hash mismatch nor a broken prev link.
C2_SequentialChainValid ==
    /\ ledgerFile.state = "ok" =>
          HashesHold(ledgerFile.content) /\ LinksHold(ledgerFile.content)
    /\ \A p \in Procs :
          validation[p].returned =>
              Messages(validation[p].issues) \cap ChainMessages = {}

C2_Witness ==
    /\ pc[1] = "done"
    /\ validation[1].returned
    /\ ledgerFile.state = "ok"
    /\ Len(ledgerFile.content) = 4

SixRecorded == memFile.state = "ok" /\ Len(memFile.content) = 6

SevenRecorded == memFile.state = "ok" /\ Len(memFile.content) = 7

\* C3 as stated: after six sequential records the first entry is at L3 and
\* the newest at L1.
C3_SixRecordsFirstAtL3 ==
    SixRecorded =>
        /\ memFile.content[1].layer = "L3"
        /\ memFile.content[6].layer = "L1"

\* C3 as amended: after six sequential records the first entry is at L2 (five
\* L2 entries do not exceed the threshold of 5) and the newest at L1; the
\* first entry is at L3, and the newest at L1, after the seventh record.
C3_SixRecordsFirstAtL2 ==
    /\ SixRecorded =>
          /\ memFile.content[1].layer = "L2"
          /\ memFile.content[6].layer = "L1"
    /\ SevenRecorded =>
          /\ memFile.content[1].layer = "L3"
          /\ memFile.content[7].layer = "L1"

C3_Witness == SevenRecorded /\ prior = 0 /\ calls = 7

\* C4: whenever the memory file is persisted, no entry it shares with the
\* previously persisted list is at a lower layer than it was there.
C4_LayerNeverRegresses ==
    [][memFile'.state = "ok" =>
          \A i \in 1..Len(persistedMem) :
              \A j \in 1..Len(memFile'.content) :
                  persistedMem[i].id = memFile'.content[j].id =>
                      Rank(memFile'.content[j].layer) >= Rank(persistedMem[i].layer)]_vars

\* C5: once the overlapping calls have all returned, the memory file holds
\* every entry that existed before and one new entry per call.
C5_NoRecordLost ==
    Quiescent =>
        /\ memFile.state = "ok"
        /\ {memFile.content[i].id : i \in 1..Len(memFile.content)} = 1..(prior + calls)

ChainIssuesOnlyAt(iss, at) ==
    \A k \in 1..Len(iss) : iss[k].msg \in ChainMessages => iss[k].at = at

\* C6: after one field (ts, kind, data or prev) of block i of an untampered
\* ledger is changed and its hash left alone, KiraAgent.process reports
\* exactly one hash mismatch, at index i, and no hash-mismatch or broken-link
\* issue at any other index.
C6_TamperDetectedExactly ==
    \A p \in Procs :
        (tamper.kind = "field" /\ validation[p].returned) =>
            /\ Cardinality(IssuesWith(validation[p].issues, "Hash mismatch at block")) = 1
            /\ ChainIssuesOnlyAt(validation[p].issues, tamper.at)

C6_Witness ==
    /\ tamper.kind = "field"
    /\ tamper.field = "ts"
    /\ tamper.at = 2
    /\ validation[1].returned
    /\ Len(ledgerFile.content) = 4

\* C7: after the prev values of the adjacent non-genesis blocks i and i + 1
\* of an untampered ledger are exchanged, KiraAgent.process reports a broken
\* prev link at index i and at index i + 1.
C7_SwapBreaksLinks ==
    \A p \in Procs :
        (tamper.kind = "swap" /\ validation[p].returned) =>
            /\ Issue("Broken prev link at block", tamper.at)
                  \in {validation[p].issues[k] : k \in 1..Len(validation[p].issues)}
            /\ Issue("Broken prev link at block", tamper.at + 1)
                  \in {validation[p].issues[k] : k \in 1..Len(validation[p].issues)}

C7_Witness ==
    /\ tamper.kind = "swap"
    /\ tamper.at = 1
    /\ validation[1].returned
    /\ Len(ledgerFile.content) = 4

\* C8: whenever the persisted ledger is non-empty its block 0 is the genesis
\* block, with kind "genesis" and an empty prev: no input block is appended
\* to an empty chain, also when the read at process time finds the file
\* missing or unreadable.
C8_GenesisFirst ==
    (ledgerFile.state = "ok" /\ Len(ledgerFile.content) > 0) =>
        /\ ledgerFile.content[1].kind = "genesis"
        /\ ledgerFile.content[1].prev = EmptyHash

\* C8, the part that holds: LimnusAgent.__init__ on a workspace whose ledger
\* file exists changes neither file.
C8_InitIdempotent ==
    [][(LimnusInit(1) /\ ledgerFile.state # "missing" /\ memFile.state # "missing")
        => UNCHANGED vars]_vars

\* the inputs of the model that are "next" once trimmed and lower-cased
AdvanceInputs == {NextText, NextPadded}

\* the inputs of the model that hold a consent keyword, in any case
ConsentInputs == {ConsentText, OpenAgreement}

Successor(stage) ==
    CASE stage = "scatter" -> "witness"
      [] stage = "witness" -> "plant"
      [] stage = "plant" -> "return"
      [] stage = "return" -> "give"
      [] stage = "give" -> "begin_again"
      [] stage = "begin_again" -> "scatter"

\* the stage stored before the k-th call: scatter before the first
StageBefore(k) == IF k = 1 THEN "scatter" ELSE callLog[k - 1].stage

\* C9: each sequential GardenAgent.process call stores the stage it found
\* (scatter on the first call), or its successor in the cycle when the
\* trimmed, lower-cased input is exactly "next"; so after the inputs
\* "hello", "I consent to proceed", "next" the stage is one step ahead of
\* the stage after the first call.
C9_StageMovesOnlyOnNext ==
    /\ \A k \in 1..Len(callLog) :
          callLog[k].stage = IF callLog[k].input \in AdvanceInputs
                             THEN Successor(StageBefore(k))
                             ELSE StageBefore(k)
    /\ Len(callLog) > 0 => garden.stage = callLog[Len(callLog)].stage
    /\ (/\ Len(callLog) >= 3
        /\ callLog[1].input = Hello
        /\ callLog[2].input = ConsentText
        /\ callLog[3].input = NextText)
          => callLog[3].stage = Successor(callLog[1].stage)

C9_Witness ==
    /\ Len(callLog) = 8
    /\ callLog[1].input = Hello
    /\ callLog[2].input = ConsentText
    /\ callLog[3].input = NextText
    /\ callLog[7].stage = "begin_again"
    /\ callLog[8].stage = "scatter"
    /\ pc[1] = "done"

\* C10: every sequential GardenAgent.process call whose input holds a
\* consent keyword appends an entry of kind "consent", whichever branch the
\* input also took.
C10_ConsentAlwaysRecorded ==
    /\ Len(garden.entries) = IF Len(callLog) = 0 THEN 0 ELSE Len(callLog) + 1
    /\ \A k \in 1..Len(callLog) :
          callLog[k].input \in ConsentInputs =>
              /\ garden.entries[k + 1].kind = "consent"
              /\ garden.entries[k + 1].data = [text |-> Strip(callLog[k].input)]

C10_Witness ==
    /\ Len(callLog) = 2
    /\ callLog[1].input = Hello
    /\ callLog[2].input = OpenAgreement
    /\ garden.entries[3].kind = "consent"
    /\ pc[1] = "done"

\* The stores of InitPrior are stores SeqSpec reaches: the state after
\* MaxPrior sequential calls with PriorContext is AfterSequentialCalls(MaxPrior)
\* (reached under SeqSpec, so its negation is violated there).
PriorStateReached ==
    /\ Quiescent
    /\ calls = MaxPrior
    /\ memFile = OkFile(AfterSequentialCalls(MaxPrior).mem)
    /\ ledgerFile = OkFile(AfterSequentialCalls(MaxPrior).ledger)
    /\ now = AfterSequentialCalls(MaxPrior).now
    /\ nextId = AfterSequentialCalls(MaxPrior).nextId

PriorStateNotReached == ~PriorStateReached


NoConsent == "No consent recorded in ritual ledger"

\* a GardenAgent.process call with a consent keyword in its input has saved
ConsentLogged == \E k \in 1..Len(callLog) : callLog[k].input \in ConsentInputs

\* no run other than p is inside an agent call
OthersIdle(p) == \A q \in Procs \ {p} : pc[q] \in {"idle", "done"}

\* C11: a KiraAgent.process call that finishes after a run with a consent
\* keyword in its input has completed GardenAgent.process, whatever runs
\* (overlapping ones included) came with it or after it, does not report
\* "No consent recorded in ritual ledger".
C11_ConsentDurable ==
    [][\A p \in Procs :
          (KiraConsent(p) /\ ConsentLogged /\ OthersIdle(p)) =>
              NoConsent \notin Messages(validation'[p].issues)]_vars

\* C11, the part that holds: a validation that finishes while no entry of
\* kind "consent" has ever been saved reports the missing consent.
C11_NoConsentReported ==
    [][\A p \in Procs :
          (KiraConsent(p) /\ ~ConsentLogged) =>
              NoConsent \in Messages(validation'[p].issues)]_vars


ReadError == "Ledger read error"

\* C12: a KiraAgent.process call that finds the ledger file missing or
\* unparsable reports the failed read as exactly one issue.
C12_ReadFailureOneIssue ==
    [][\A p \in Procs :
          (KiraLedger(p) /\ ledgerFile.state # "ok") => Len(issues'[p]) = 1]_vars

\* C12, the part that holds: a KiraAgent.process call that found the ledger
\* file missing or unparsable returns a result, with passed false and the
\* read error among its issues.
C12_ReadFailureReturned ==
    [][\A p \in Procs :
          (KiraConsent(p) /\ ReadError \in Messages(issues[p])) =>
              /\ validation'[p].returned
              /\ ~validation'[p].passed
              /\ ReadError \in Messages(validation'[p].issues)]_vars


\* the list without its last element
Front(s) == SubSeq(s, 1, Len(s) - 1)

\* C13: when the write of the ledger raises in a LimnusAgent.process call
\* that had read a chain, the ledger file holds that chain, unchanged.
C13_FailedWriteKeepsChain ==
    [][\A p \in Procs :
          ((LimnusOpenLedgerFails(p) \/ LimnusWriteLedgerFails(p))
              /\ Len(ledger_blocks'[p]) > 1) =>
                  ledgerFile' = OkFile(Front(ledger_blocks'[p]))]_vars

\* C13, the part that holds: a LimnusAgent.process call that raised has
\* produced no result and has written no metadata.
C13_NoResultOnFailure ==
    \A p \in Procs :
        pc[p] = "raised" =>
            /\ limnus_result[p] = NoLimnusResult
            /\ metadata[p] = NoMetadata


\* the last block of the persisted ledger
TailBlock == ledgerFile.content[Len(ledgerFile.content)]

\* the result of run p names the new memory entry and the tail block of the
\* persisted ledger, whose data holds the input and Echo's styled text
ResultNamesEntryAndBlock(p) ==
    /\ memFile.state = "ok" /\ ledgerFile.state = "ok"
    /\ limnus_result[p].cached
    /\ limnus_result[p].memory_id = memFile.content[Len(memFile.content)].id
    /\ memFile.content[Len(memFile.content)].text = ctx[p].input_text
    /\ limnus_result[p].block_hash = TailBlock.hash
    /\ TailBlock.data.text = ctx[p].input_text
    /\ TailBlock.data.styled_text = ctx[p].styled_text

MetadataNamesBlock(p) ==
    /\ "last_block_hash" \in metadata[p].keys
    /\ metadata[p].last_block_hash = TailBlock.hash

\* C14: when a sequential LimnusAgent.process call has returned, its result
\* and context.metadata both hold the id of the new memory entry and the
\* hash of the new block, which is the tail block of the persisted ledger
\* and holds the input and Echo's styled text.
C14_IdAndHashSurfaced ==
    \A p \in Procs :
        pc[p] = "returned" =>
            /\ ResultNamesEntryAndBlock(p)
            /\ MetadataNamesBlock(p)
            /\ "memory_id" \in metadata[p].keys

\* C14, the part that holds: the result holds the id and the hash, and
\* context.metadata holds the hash and the number of memory entries.
C14_HashSurfaced ==
    \A p \in Procs :
        pc[p] = "returned" =>
            /\ ResultNamesEntryAndBlock(p)
            /\ MetadataNamesBlock(p)
            /\ metadata[p].keys = {"last_block_hash", "memory_count"}
            /\ metadata[p].memory_count = Len(memFile.content)


\* the blocks of the persisted ledger other than the genesis block
NonGenesisBlocks ==
    {i \in 1..Len(ReadJson(ledgerFile, <<>>)) :
        ReadJson(ledgerFile, <<>>)[i].kind # "genesis"}

\* C19: whenever no LimnusAgent.process call is in flight, also after a call
\* was cancelled or failed between the write of the memory list and the
\* write of the ledger, there are as many persisted memory entries as
\* non-genesis ledger blocks.
C19_MemoryLedgerPaired ==
    Quiescent => Len(ReadJson(memFile, <<>>)) = Cardinality(NonGenesisBlocks)

\* C19 as amended: whenever no sequential LimnusAgent.process call is in
\* flight, every call made so far has its memory entry persisted; there are
\* as many non-genesis ledger blocks as long as no call was cancelled or
\* failed after its memory write, and fewer blocks than memory entries from
\* then on (the memory entry of such a call is not rolled back).
C19_PairedUnlessAborted ==
    Quiescent =>
        /\ memFile.state = "ok"
        /\ Len(memFile.content) = calls
        /\ aborted = 0 =>
              /\ ledgerFile.state = "ok"
              /\ Cardinality(NonGenesisBlocks) = Len(memFile.content)
        /\ aborted > 0 => Cardinality(NonGenesisBlocks) < Len(memFile.content)

C19_Witness ==
    /\ Quiescent
    /\ calls = 3
    /\ aborted = 1
    /\ ledgerFile.state = "ok"
    /\ Len(ledgerFile.content) = 3
    /\ Len(memFile.content) = 3


IssueSet(iss) == {iss[k] : k \in 1..Len(iss)}

\* the findings a chain calls for, block by block
ExpectedChainIssues(blocks) ==
    {Issue("Hash mismatch at block", k - 1) : k \in
        {k \in 1..Len(blocks) : blocks[k].hash # Digest(WithoutHash(blocks[k]))}}
    \cup
    {Issue("Broken prev link at block", k - 1) : k \in
        {k \in 2..Len(blocks) : blocks[k].prev # blocks[k - 1].hash}}
    \cup
    {Issue("Timestamp out of order at block", k - 1) : k \in
        {k \in 2..Len(blocks) : /\ blocks[k].ts >= 0
                                /\ blocks[k - 1].ts >= 0
                                /\ blocks[k].ts < blocks[k - 1].ts}}

HasConsentEntry ==
    \E i \in 1..Len(garden.entries) : garden.entries[i].kind = "consent"

\* C15: KiraAgent.process reports the hash mismatch, the broken link and the
\* timestamp disorder of every block that has one, also of the blocks after
\* a block whose timestamp does not parse; and whatever it found in the
\* ledger (nothing, issues, an empty or unreadable file), it keeps those
\* issues and adds the consent issue exactly when no consent entry exists.
C15_ValidationCumulative ==
    [][\A p \in Procs :
          /\ (KiraLedger(p) /\ ledgerFile.state = "ok" /\ Len(ledgerFile.content) > 0) =>
                IssueSet(issues'[p]) \
                    {Issue("Genesis block prev field should be empty", NoIndex)}
                        = ExpectedChainIssues(ledgerFile.content)
          /\ KiraConsent(p) =>
                /\ validation'[p].returned
                /\ IssueSet(issues[p]) \subseteq IssueSet(validation'[p].issues)
                /\ (NoConsent \in Messages(validation'[p].issues)) <=> ~HasConsentEntry
                /\ validation'[p].passed <=> (Len(validation'[p].issues) = 0)]_vars

\* a validation of a ledger whose block 1 has an unparsable timestamp and
\* whose block 2 was edited reports both blocks and the missing consent
C15_Witness ==
    /\ validation[1].returned
    /\ ledgerFile.state = "ok"
    /\ Len(ledgerFile.content) = 3
    /\ ledgerFile.content[2].ts = BadTs
    /\ tamper.kind = "field"
    /\ tamper.at = 2
    /\ Issue("Hash mismatch at block", 1) \in IssueSet(validation[1].issues)
    /\ Issue("Hash mismatch at block", 2) \in IssueSet(validation[1].issues)
    /\ NoConsent \in Messages(validation[1].issues)


Personas == <<"squirrel", "fox", "paradox">>

WeightOf(state, persona) ==
    CASE persona = "squirrel" -> state.alpha
      [] persona = "fox" -> state.beta
      [] persona = "paradox" -> state.gamma

\* the first persona, in the order squirrel, fox, paradox, of greatest weight
FirstGreatest(state) ==
    Personas[CHOOSE i \in 1..3 :
        /\ \A j \in 1..3 : WeightOf(state, Personas[j]) <= WeightOf(state, Personas[i])
        /\ \A j \in 1..(i - 1) :
              WeightOf(state, Personas[j]) < WeightOf(state, Personas[i])]

EchoReturned(p) == pc[p] = "done" /\ echo_result[p] # NoEchoResult

\* C16: for every input, EchoAgent.process returns the glyph of the persona
\* whose emitted weight is the greatest, the first of them in the order
\* squirrel, fox, paradox when several are, and writes that persona to
\* context.metadata["dominant_persona"].
C16_PersonaIsFirstGreatest ==
    \A p \in Procs :
        EchoReturned(p) =>
            /\ metadata[p].dominant_persona = FirstGreatest(echo_result[p].state)
            /\ echo_result[p].glyph = PERSONA_EMOJI(metadata[p].dominant_persona)
            /\ "dominant_persona" \in metadata[p].keys

\* a short input without keyword: squirrel and paradox tie, squirrel wins
C16_Witness ==
    /\ EchoReturned(1)
    /\ Len(ctx[1].input_text) = 39
    /\ echo_result[1].state.alpha = echo_result[1].state.gamma
    /\ echo_result[1].state.alpha > echo_result[1].state.beta
    /\ metadata[1].dominant_persona = "squirrel"

WeightSum(state) == state.alpha + state.beta + state.gamma

\* C17: for every input the three emitted weights, in the result and in
\* context.metadata["mode_weights"], sum to exactly 1 (1000 thousandths).
C17_WeightsSumToOne ==
    \A p \in Procs :
        EchoReturned(p) =>
            /\ WeightSum(echo_result[p].state) = 1000
            /\ metadata[p].mode_weights = echo_result[p].state

\* C17 as amended: the three emitted weights, the same in the result and in
\* context.metadata["mode_weights"], sum to 1 for an input of 40 characters
\* or more and to 1.001 for a shorter input.
C17_WeightsSumWithinRounding ==
    \A p \in Procs :
        EchoReturned(p) =>
            /\ metadata[p].mode_weights = echo_result[p].state
            /\ "mode_weights" \in metadata[p].keys
            /\ WeightSum(echo_result[p].state) =
                  IF Len(ctx[p].input_text) < 40 THEN 1001 ELSE 1000

C17_Witness ==
    /\ EchoReturned(1)
    /\ Len(ctx[1].input_text) = 39
    /\ echo_result[1].state = [alpha |-> 308, beta |-> 231, gamma |-> 462]
    /\ metadata[1].mode_weights = echo_result[1].state


\* C18: after any number of sequential records the persisted memory list
\* has exactly one entry at L1, the newest, and read from the oldest entry
\* to the newest the layer never rises.
C18_OneL1AndLayersOrdered ==
    (memFile.state = "ok" /\ Len(memFile.content) > 0) =>
        /\ {i \in 1..Len(memFile.content) : memFile.content[i].layer = "L1"}
              = {Len(memFile.content)}
        /\ \A i, j \in 1..Len(memFile.content) :
              i < j => Rank(memFile.content[i].layer) >= Rank(memFile.content[j].layer)
        /\ \A i, j \in 1..Len(memFile.content) :
              i < j => memFile.content[i].id < memFile.content[j].id

\* seven records: the first six entries have reached L3, the seventh is at L1
C18_Witness ==
    /\ pc[1] = "returned"
    /\ memFile.state = "ok"
    /\ Len(memFile.content) = 7
    /\ memFile.content[6].layer = "L3"
    /\ memFile.content[7].layer = "L1"
    /\ limnus_result[1].memory_id = 7


\* the stores: the persisted ledger blocks, the memory entries, the ritual state
Stores == <<ledgerFile, memFile, persistedMem, garden>>

\* run p carries the outcome of a validation and no stage has started since
ValidatedBefore(p) ==
    /\ validation[p].returned
    /\ "validation_passed" \in metadata[p].keys

\* what a returning validation of run p writes outside the stores
KiraWrites(p) ==
    /\ metadata'[p] = [metadata[p] EXCEPT
           !.keys = @ \cup {"validation_passed", "issue_count"},
           !.validation_passed = validation'[p].passed,
           !.issue_count = Len(validation'[p].issues)]
    /\ logged'[p] = LogRecord("kira", [passed |-> validation'[p].passed,
                                       issues |-> Len(validation'[p].issues)])
    /\ \A q \in Procs \ {p} : metadata'[q] = metadata[q] /\ logged'[q] = logged[q]

\* C20: a KiraAgent.process call leaves the persisted ledger blocks, the
\* memory entries and the ritual state (stage and entries) unchanged; it
\* writes only context.metadata["validation_passed"],
\* context.metadata["issue_count"] and one log record; a validation that
\* follows another one with no stage in between returns the same passed
\* flag and the same issues.
C20_KiraReadOnly ==
    [][\A p \in Procs :
          /\ (KiraLedger(p) \/ KiraConsent(p)) =>
                 /\ Stores' = Stores
                 /\ ctx' = ctx
                 /\ limnus_result' = limnus_result
                 /\ echo_result' = echo_result
                 /\ garden_result' = garden_result
          /\ KiraLedger(p) => metadata' = metadata
          /\ KiraConsent(p) => KiraWrites(p)
          /\ (KiraConsent(p) /\ ValidatedBefore(p)) =>
                 /\ validation'[p].passed = validation[p].passed
                 /\ validation'[p].issues = validation[p].issues]_vars

\* a second validation in a row is under way on a workspace with a memory
\* entry, two blocks and a ritual state with entries, the first one having
\* reported issues
C20_Witness ==
    /\ pc[1] = "kira_consent"
    /\ ValidatedBefore(1)
    /\ ~validation[1].passed
    /\ metadata[1].issue_count = Len(validation[1].issues)
    /\ Len(ledgerFile.content) = 2
    /\ Len(memFile.content) = 1
    /\ Len(garden.entries) >= 1

====
